---- MODULE Spec2Model ----
(***************************************************************************)
(* BrainRust (src/main.rs): parser/bracket linker and virtual machine.     *)
(*                                                                         *)
(* Indices are 0-based as in the Rust source; a Rust vector v is a TLA+    *)
(* sequence and v[i] is written v[i + 1].  The tape `data` is a function   *)
(* on 0 .. MEM_SIZE - 1.  A panic is recorded by the source line of the    *)
(* panicking expression and its kind ("238:overflow").                      *)
(***************************************************************************)
EXTENDS Integers, Sequences, FiniteSets, TLC

\* Tape length.  main.rs:17 sets 30_000; the model scales it down.
MEM_SIZE == 7

\* Longest source text enumerated exhaustively.
MaxLen == 4

\* Longest output (in bytes) after which no further key 'a' is modelled.
MaxOutput == 4

\* Longest output of the source texts in LongRuns: enough for a cell that is
\* incremented once per output to pass 255.
MaxOutputLong == 260

\* Largest usize.  The width is the target's pointer width; the model takes
\* a 16-bit target so that the value fits the checker's integers.
USIZE_MAX == 2^16 - 1

\* u8 cells: 256 values.
U8_MOD == 2^8

\* The source alphabet: the eight command characters, newline and one
\* representative "x" of every other (ASCII) character.
Chars == {"[", "]", "<", ">", "-", "+", ".", ",", "\n", "x"}

\* Build profiles: debug builds check integer overflow and panic, release
\* builds wrap.
Builds == {"debug", "release"}

Max(a, b) == IF a >= b THEN a ELSE b

Repeat(c, n) == [k \in 1 .. n |-> c]

-----------------------------------------------------------------------------
(* Source texts the machine is constructed from *)

HelloWorld ==
  <<"+", "+", "+", "+", "+", "+", "+", "+", "[", ">", "+", "+", "+", "+",
    "[", ">", "+", "+", ">", "+", "+", "+", ">", "+", "+", "+", ">", "+",
    "<", "<", "<", "<", "-", "]", ">", "+", ">", "+", ">", "-", ">", ">",
    "+", "[", "<", "]", "<", "-", "]", ">", ">", ".">>

ScenarioA == <<"+", "+", "+", "+", "[", "-", ".", "+", ">", "+", "<", "]">>

\* Walks the data pointer off the right end of the tape.
RunRight == Repeat(">", MEM_SIZE)

Fixtures ==
  { HelloWorld, ScenarioA, RunRight, RunRight \o <<"+">>,
    <<"+", ">", "+", "+", "[", "-", "]">>,
    <<"+", "[", "x", "+", "]">>,
    <<"+", ">", "+", ">", "+", "-">>,
    <<">", ">", "+", "+", "[", "-", "]">> }

\* Source texts that are followed for MaxOutputLong outputs.
LongRuns == {ScenarioA}

Sources == (UNION { [1 .. n -> Chars] : n \in 0 .. MaxLen }) \cup Fixtures

-----------------------------------------------------------------------------
(* parse *)

Err == <<"Err">>
Ok(v) == <<"Ok", v>>

\* The `match ch` of parse, lines 50-73, with a ']' that links its pair
\* wrongly: the open bracket is patched to point at itself.
MatchCommand_SelfLink(st, i, ch) ==
  CASE ch = "[" ->
         [err |-> FALSE, command |-> <<"JumpForward", 0>>,
          instructions |-> st.instructions,
          brack_stack |-> Append(st.brack_stack, i), pos_y |-> st.pos_y]
    [] ch = "]" ->
         IF st.brack_stack = <<>>
         THEN [err |-> TRUE, command |-> <<"NoOp">>,
               instructions |-> st.instructions,
               brack_stack |-> st.brack_stack, pos_y |-> st.pos_y]
         ELSE LET match_pos == st.brack_stack[Len(st.brack_stack)]
              IN [err |-> FALSE, command |-> <<"JumpBackward", match_pos>>,
                  instructions |->
                    [st.instructions EXCEPT
                       ![match_pos + 1].command = <<"JumpForward", match_pos>>],
                  brack_stack |->
                    SubSeq(st.brack_stack, 1, Len(st.brack_stack) - 1),
                  pos_y |-> st.pos_y]
    [] OTHER ->
         [err |-> FALSE,
          command |-> CASE ch = "<" -> <<"DecPtr">>
                        [] ch = ">" -> <<"IncPtr">>
                        [] ch = "-" -> <<"DecData">>
                        [] ch = "+" -> <<"IncData">>
                        [] ch = "." -> <<"Output">>
                        [] ch = "," -> <<"Input">>
                        [] OTHER -> <<"NoOp">>,
          instructions |-> st.instructions,
          brack_stack |-> st.brack_stack,
          pos_y |-> IF ch = "\n" THEN st.pos_y + 1 ELSE st.pos_y]

\* The `match ch` of parse with a ']' that is ignored when the bracket stack
\* is empty instead of failing.
MatchCommand_IgnoreClose(st, i, ch) ==
  CASE ch = "[" ->
         [err |-> FALSE, command |-> <<"JumpForward", 0>>,
          instructions |-> st.instructions,
          brack_stack |-> Append(st.brack_stack, i), pos_y |-> st.pos_y]
    [] ch = "]" ->
         IF st.brack_stack = <<>>
         THEN [err |-> FALSE, command |-> <<"NoOp">>,
               instructions |-> st.instructions,
               brack_stack |-> st.brack_stack, pos_y |-> st.pos_y]
         ELSE LET match_pos == st.brack_stack[Len(st.brack_stack)]
              IN [err |-> FALSE, command |-> <<"JumpBackward", match_pos>>,
                  instructions |->
                    [st.instructions EXCEPT
                       ![match_pos + 1].command = <<"JumpForward", i>>],
                  brack_stack |->
                    SubSeq(st.brack_stack, 1, Len(st.brack_stack) - 1),
                  pos_y |-> st.pos_y]
    [] OTHER ->
         [err |-> FALSE,
          command |-> CASE ch = "<" -> <<"DecPtr">>
                        [] ch = ">" -> <<"IncPtr">>
                        [] ch = "-" -> <<"DecData">>
                        [] ch = "+" -> <<"IncData">>
                        [] ch = "." -> <<"Output">>
                        [] ch = "," -> <<"Input">>
                        [] OTHER -> <<"NoOp">>,
          instructions |-> st.instructions,
          brack_stack |-> st.brack_stack,
          pos_y |-> IF ch = "\n" THEN st.pos_y + 1 ELSE st.pos_y]

\* The `match ch` of parse with the commands of '<' and '>' exchanged.
MatchCommand_SwapMoves(st, i, ch) ==
  CASE ch = "[" ->
         [err |-> FALSE, command |-> <<"JumpForward", 0>>,
          instructions |-> st.instructions,
          brack_stack |-> Append(st.brack_stack, i), pos_y |-> st.pos_y]
    [] ch = "]" ->
         IF st.brack_stack = <<>>
         THEN [err |-> TRUE, command |-> <<"NoOp">>,
               instructions |-> st.instructions,
               brack_stack |-> st.brack_stack, pos_y |-> st.pos_y]
         ELSE LET match_pos == st.brack_stack[Len(st.brack_stack)]
              IN [err |-> FALSE, command |-> <<"JumpBackward", match_pos>>,
                  instructions |->
                    [st.instructions EXCEPT
                       ![match_pos + 1].command = <<"JumpForward", i>>],
                  brack_stack |->
                    SubSeq(st.brack_stack, 1, Len(st.brack_stack) - 1),
                  pos_y |-> st.pos_y]
    [] OTHER ->
         [err |-> FALSE,
          command |-> CASE ch = "<" -> <<"IncPtr">>
                        [] ch = ">" -> <<"DecPtr">>
                        [] ch = "-" -> <<"DecData">>
                        [] ch = "+" -> <<"IncData">>
                        [] ch = "." -> <<"Output">>
                        [] ch = "," -> <<"Input">>
                        [] OTHER -> <<"NoOp">>,
          instructions |-> st.instructions,
          brack_stack |-> st.brack_stack,
          pos_y |-> IF ch = "\n" THEN st.pos_y + 1 ELSE st.pos_y]

\* The `match ch` of parse, lines 50-73: the command for character ch at
\* index i, with its effects on the bracket stack, on the instruction
\* already pushed for the matching '[' and on pos_y.  err is the early
\* return of `brack_stack.pop().ok_or(())?`.
MatchCommand(st, i, ch) ==
  CASE ch = "[" ->
         [err |-> FALSE, command |-> <<"JumpForward", 0>>,
          instructions |-> st.instructions,
          brack_stack |-> Append(st.brack_stack, i), pos_y |-> st.pos_y]
    [] ch = "]" ->
         IF st.brack_stack = <<>>
         THEN [err |-> TRUE, command |-> <<"NoOp">>,
               instructions |-> st.instructions,
               brack_stack |-> st.brack_stack, pos_y |-> st.pos_y]
         ELSE LET match_pos == st.brack_stack[Len(st.brack_stack)]
              IN [err |-> FALSE, command |-> <<"JumpBackward", match_pos>>,
                  instructions |->
                    [st.instructions EXCEPT
                       ![match_pos + 1].command = <<"JumpForward", i>>],
                  brack_stack |->
                    SubSeq(st.brack_stack, 1, Len(st.brack_stack) - 1),
                  pos_y |-> st.pos_y]
    [] OTHER ->
         [err |-> FALSE,
          command |-> CASE ch = "<" -> <<"DecPtr">>
                        [] ch = ">" -> <<"IncPtr">>
                        [] ch = "-" -> <<"DecData">>
                        [] ch = "+" -> <<"IncData">>
                        [] ch = "." -> <<"Output">>
                        [] ch = "," -> <<"Input">>
                        [] OTHER -> <<"NoOp">>,
          instructions |-> st.instructions,
          brack_stack |-> st.brack_stack,
          pos_y |-> IF ch = "\n" THEN st.pos_y + 1 ELSE st.pos_y]

\* One iteration of the `for (i, ch)` loop of parse, lines 48-88.
ParseChar(st, i, ch) ==
  LET c == MatchCommand(st, i, ch)
  IN IF c.err THEN Err
     ELSE Ok([instructions |->
                Append(c.instructions,
                       [command |-> c.command, ch |-> ch,
                        pos |-> <<st.pos_x, c.pos_y>>]),
              brack_stack |-> c.brack_stack,
              pos_x |-> IF ch = "\n" THEN 0 ELSE st.pos_x + 1,
              pos_y |-> c.pos_y])

RECURSIVE ParseLoop(_, _, _)
ParseLoop(chs, i, st) ==
  IF i = Len(chs) THEN Ok(st.instructions)
  ELSE LET r == ParseChar(st, i, chs[i + 1])
       IN IF r = Err THEN Err ELSE ParseLoop(chs, i + 1, r[2])

\* fn parse, lines 43-91.  The bracket stack is not inspected after the scan.
parse(chs) ==
  ParseLoop(chs, 0, [instructions |-> <<>>, brack_stack |-> <<>>,
                     pos_x |-> 0, pos_y |-> 0])

\* program.split('\n'), lines 136-138: the lines of the source text.
RECURSIVE SplitLines(_, _, _)
SplitLines(chs, k, cur) ==
  IF k > Len(chs) THEN <<cur>>
  ELSE IF chs[k] = "\n" THEN <<cur>> \o SplitLines(chs, k + 1, <<>>)
       ELSE SplitLines(chs, k + 1, Append(cur, chs[k]))

-----------------------------------------------------------------------------
(* State *)

VARIABLES
  build,           \* build profile of the binary
  program,         \* the source text read by main
  pc,              \* where the process is: "main", "run", "keys",
                   \* "returned", "exited", "panicked"
  exit_code,       \* argument of process::exit, or 0 when main returned
  panic,           \* source line and kind of the panic, "" when none
  prog,            \* Machine.prog
  data,            \* Machine.data
  prog_ctr,        \* Machine.prog_ctr
  data_ptr,        \* Machine.data_ptr
  last_data_cell,  \* Machine.last_data_cell
  prog_src,        \* Machine.prog_src
  output           \* Machine.output, the bytes of the String

proc == <<build, program, pc, exit_code, panic>>
machine == <<prog, data, prog_ctr, data_ptr, last_data_cell, prog_src, output>>
vars == <<build, program, pc, exit_code, panic, prog, data, prog_ctr,
          data_ptr, last_data_cell, prog_src, output>>

\* The machine as a value, for the methods below.  halt is "" while the
\* method runs on, "exit(0)" after process::exit(0), or the panic.
Self ==
  [prog |-> prog, data |-> data, prog_ctr |-> prog_ctr, data_ptr |-> data_ptr,
   last_data_cell |-> last_data_cell, prog_src |-> prog_src,
   output |-> output, halt |-> ""]

Halt(m, how) == [m EXCEPT !.halt = how]

\* Integer overflow panics in a build with overflow checks and wraps
\* otherwise.
OverflowChecks == build = "debug"

-----------------------------------------------------------------------------
(* Machine *)

\* Machine::new, lines 128-145.
Machine_new(src) ==
  LET r == parse(src)
  IN IF r = Err THEN Err
     ELSE Ok([prog |-> r[2],
              data |-> [c \in 0 .. MEM_SIZE - 1 |-> 0],
              prog_ctr |-> 0,
              data_ptr |-> 0,
              prog_src |-> SplitLines(src, 1, <<>>),
              last_data_cell |-> 0,
              output |-> <<>>,
              halt |-> ""])

\* String::push of a u8 cast to char, line 215: the UTF-8 encoding of the
\* code point v < 256.
PushChar(out, v) ==
  IF v < 128 THEN Append(out, v)
  ELSE out \o <<192 + (v \div 64), 128 + (v % 64)>>

\* jmp_eq with the test of jmp_ne.
jmp_eq_OnNonZero(m, i) ==
  IF m.data_ptr >= MEM_SIZE THEN Halt(m, "223:index")
  ELSE IF m.data[m.data_ptr] # 0 THEN [m EXCEPT !.prog_ctr = i] ELSE m

\* jmp_eq, lines 222-226.
jmp_eq(m, i) ==
  IF m.data_ptr >= MEM_SIZE THEN Halt(m, "223:index")
  ELSE IF m.data[m.data_ptr] = 0 THEN [m EXCEPT !.prog_ctr = i] ELSE m

\* jmp_ne with the test of jmp_eq.
jmp_ne_OnZero(m, i) ==
  IF m.data_ptr >= MEM_SIZE THEN Halt(m, "230:index")
  ELSE IF m.data[m.data_ptr] = 0 THEN [m EXCEPT !.prog_ctr = i] ELSE m

\* jmp_ne, lines 229-233.
jmp_ne(m, i) ==
  IF m.data_ptr >= MEM_SIZE THEN Halt(m, "230:index")
  ELSE IF m.data[m.data_ptr] # 0 THEN [m EXCEPT !.prog_ctr = i] ELSE m

\* The `while self.data[p] == 0 || p > 0 { p -= 1; }` of dec_data, lines
\* 242-244.  The result is <<"p", p>> or <<"panic", where>>.
RECURSIVE ScanLeft(_, _)
ScanLeft(m, p) ==
  IF p >= MEM_SIZE THEN <<"panic", "242:index">>
  ELSE IF m.data[p] = 0 \/ p > 0
       THEN IF p = 0
            THEN IF OverflowChecks THEN <<"panic", "243:overflow">>
                 ELSE ScanLeft(m, USIZE_MAX)
            ELSE ScanLeft(m, p - 1)
       ELSE <<"p", p>>

\* dec_data, lines 237-247.
dec_data(m) ==
  IF m.data_ptr >= MEM_SIZE THEN Halt(m, "238:index")
  ELSE IF m.data[m.data_ptr] = 0 /\ OverflowChecks
       THEN Halt(m, "238:overflow")
       ELSE LET m1 == [m EXCEPT !.data[m.data_ptr] = (@ + U8_MOD - 1) % U8_MOD]
            IN IF m1.data[m1.data_ptr] = 0 /\ m1.data_ptr = m1.last_data_cell
               THEN LET s == ScanLeft(m1, m1.data_ptr)
                    IN IF s[1] = "panic" THEN Halt(m1, s[2])
                       ELSE [m1 EXCEPT !.last_data_cell = s[2]]
               ELSE m1

\* inc_data, lines 250-256.
inc_data(m) ==
  IF m.data_ptr >= MEM_SIZE THEN Halt(m, "251:index")
  ELSE LET m1 == IF m.data[m.data_ptr] = 0 /\ m.data_ptr > m.last_data_cell
                 THEN [m EXCEPT !.last_data_cell = m.data_ptr]
                 ELSE m
       IN IF m1.data[m1.data_ptr] = U8_MOD - 1 /\ OverflowChecks
          THEN Halt(m1, "255:overflow")
          ELSE [m1 EXCEPT !.data[m1.data_ptr] = (@ + 1) % U8_MOD]

\* execute, lines 207-219.
execute(m) ==
  IF m.prog_ctr >= Len(m.prog) THEN Halt(m, "208:index")
  ELSE LET command == m.prog[m.prog_ctr + 1].command
       IN CASE command[1] = "JumpForward" -> jmp_eq(m, command[2])
            [] command[1] = "JumpBackward" -> jmp_ne(m, command[2])
            [] command[1] = "DecPtr" ->
                 IF m.data_ptr = 0
                 THEN IF OverflowChecks THEN Halt(m, "211:overflow")
                      ELSE [m EXCEPT !.data_ptr = USIZE_MAX]
                 ELSE [m EXCEPT !.data_ptr = @ - 1]
            [] command[1] = "IncPtr" ->
                 IF m.data_ptr = USIZE_MAX
                 THEN IF OverflowChecks THEN Halt(m, "212:overflow")
                      ELSE [m EXCEPT !.data_ptr = 0]
                 ELSE [m EXCEPT !.data_ptr = @ + 1]
            [] command[1] = "DecData" -> dec_data(m)
            [] command[1] = "IncData" -> inc_data(m)
            [] command[1] = "Output" ->
                 IF m.data_ptr >= MEM_SIZE THEN Halt(m, "215:index")
                 ELSE [m EXCEPT !.output = PushChar(@, m.data[m.data_ptr])]
            [] command[1] = "Input" -> Halt(m, "216:todo")
            [] command[1] = "NoOp" -> m

\* inc_prog_ctr, lines 198-204.
inc_prog_ctr(m) ==
  IF Len(m.prog) = 0 /\ OverflowChecks THEN Halt(m, "199:overflow")
  ELSE LET last == IF Len(m.prog) = 0 THEN USIZE_MAX ELSE Len(m.prog) - 1
       IN IF m.prog_ctr = last THEN Halt(m, "exit(0)")
          ELSE IF m.prog_ctr = USIZE_MAX
               THEN IF OverflowChecks THEN Halt(m, "203:overflow")
                    ELSE [m EXCEPT !.prog_ctr = 0]
               ELSE [m EXCEPT !.prog_ctr = @ + 1]

\* The `while let Command::NoOp = ...` of advance, lines 192-194.
RECURSIVE SkipNoOps(_)
SkipNoOps(m) ==
  IF m.prog_ctr >= Len(m.prog) THEN Halt(m, "192:index")
  ELSE IF m.prog[m.prog_ctr + 1].command = <<"NoOp">>
       THEN LET m1 == inc_prog_ctr(m)
            IN IF m1.halt # "" THEN m1 ELSE SkipNoOps(m1)
       ELSE m

\* advance, lines 189-195.
advance(m) ==
  LET m1 == execute(m)
  IN IF m1.halt # "" THEN m1
     ELSE LET m2 == inc_prog_ctr(m1)
          IN IF m2.halt # "" THEN m2 ELSE SkipNoOps(m2)

\* What redraw (lines 180-186) does to the process: Display::fmt, lines
\* 320-350, reads cells 0 ..= max(last_data_cell, data_ptr) through
\* fmt_data_cell (line 263) and, for every source line, the instruction under
\* the read head through fmt_src_line (lines 299, 301), row by row, the cell
\* before the source line.  The result is the first panic, "" when there is
\* none.  The machine is not changed.
redraw(m) ==
  IF m.prog_ctr >= Len(m.prog) THEN "299:index"
  ELSE LET pos == m.prog[m.prog_ctr + 1].pos
           splitBad == /\ pos[2] < Len(m.prog_src)
                       /\ pos[1] > Len(m.prog_src[pos[2] + 1])
           cellBad == Max(m.last_data_cell, m.data_ptr) >= MEM_SIZE
       IN IF cellBad /\ (~splitBad \/ MEM_SIZE <= pos[2]) THEN "263:index"
          ELSE IF splitBad THEN "301:split_at"
          ELSE ""

-----------------------------------------------------------------------------
(* The process *)

NoCells == [c \in 0 .. MEM_SIZE - 1 |-> 0]

\* main has read the source file; no Machine exists yet.
Init ==
  /\ build \in Builds
  /\ program \in Sources
  /\ pc = "main"
  /\ exit_code = 0
  /\ panic = ""
  /\ prog = <<>>
  /\ data = NoCells
  /\ prog_ctr = 0
  /\ data_ptr = 0
  /\ last_data_cell = 0
  /\ prog_src = <<>>
  /\ output = <<>>

\* The fields of the machine become those of m; the process goes on at
\* `next`, or ends as m.halt says.
Becomes(m, next) ==
  /\ prog' = m.prog
  /\ data' = m.data
  /\ prog_ctr' = m.prog_ctr
  /\ data_ptr' = m.data_ptr
  /\ last_data_cell' = m.last_data_cell
  /\ prog_src' = m.prog_src
  /\ output' = m.output
  /\ IF m.halt = "" THEN /\ pc' = next
                         /\ UNCHANGED <<exit_code, panic>>
     ELSE IF m.halt = "exit(0)" THEN /\ pc' = "exited"
                                     /\ exit_code' = 0
                                     /\ UNCHANGED panic
     ELSE /\ pc' = "panicked"
          /\ panic' = m.halt
          /\ UNCHANGED exit_code
  /\ UNCHANGED <<build, program>>

\* main, lines 362-366: Machine::new, and exit(2) when it fails.
MachineNew ==
  /\ pc = "main"
  /\ LET r == Machine_new(program)
     IN IF r = Err
        THEN /\ pc' = "exited"
             /\ exit_code' = 2
             /\ UNCHANGED <<build, program, panic, machine>>
        ELSE Becomes(r[2], "run")

\* run up to its key loop, lines 150-159: the first redraw.
RunStart ==
  /\ pc = "run"
  /\ Becomes(Halt(Self, redraw(Self)), "keys")

\* The output length up to which the run of the source text is followed.
OutputCap == IF program \in LongRuns THEN MaxOutputLong ELSE MaxOutput

\* Key 'a', lines 166 and 169: advance, then redraw.
KeyAdvance ==
  /\ pc = "keys"
  /\ Len(output) < OutputCap
  /\ LET m == advance(Self)
     IN IF m.halt # "" THEN Becomes(m, "keys")
        ELSE Becomes(Halt(m, redraw(m)), "keys")

\* Key 'q', lines 162-165: the loop breaks, run and main return.
KeyQuit ==
  /\ pc = "keys"
  /\ pc' = "returned"
  /\ exit_code' = 0
  /\ UNCHANGED <<build, program, panic, machine>>

\* Any other key, lines 167 and 169: redraw only.
KeyOther ==
  /\ pc = "keys"
  /\ Becomes(Halt(Self, redraw(Self)), "keys")

Next == MachineNew \/ RunStart \/ KeyAdvance \/ KeyQuit \/ KeyOther

Spec == Init /\ [][Next]_vars

\* Running ScenarioA to completion: the caller keeps stepping (key 'a' again
\* and again, as the `loop { self.advance(); }` of lines 172-174 does) and
\* never quits.
InitScenarioA == Init /\ program = ScenarioA

NextRun == MachineNew \/ RunStart \/ KeyAdvance

SpecScenarioA == InitScenarioA /\ [][NextRun]_vars /\ WF_vars(KeyAdvance)

-----------------------------------------------------------------------------
(* Vocabulary of the machine's life *)

Constructed == pc \in {"run", "keys", "returned"} \/ (pc = "exited" /\ exit_code = 0) \/ pc = "panicked"
Running == pc \in {"run", "keys"}
\* inc_prog_ctr found the pointer on the last instruction (line 199).
Completed == pc = "exited" /\ exit_code = 0
Failed == pc = "panicked"
ParseFailed == pc = "exited" /\ exit_code = 2

TypeOK ==
  /\ build \in Builds
  /\ pc \in {"main", "run", "keys", "returned", "exited", "panicked"}
  /\ exit_code \in {0, 2}
  /\ data \in [0 .. MEM_SIZE - 1 -> 0 .. U8_MOD - 1]
  /\ prog_ctr \in 0 .. USIZE_MAX
  /\ data_ptr \in 0 .. USIZE_MAX
  /\ last_data_cell \in 0 .. USIZE_MAX

-----------------------------------------------------------------------------
(* Vocabulary of the claims *)

\* Number of '[' minus number of ']' among the first k characters of s.
Depth(s, k) ==
  Cardinality({n \in 1 .. k : s[n] = "["}) -
  Cardinality({n \in 1 .. k : s[n] = "]"})

\* Some ']' has no '[' before it to match.
ExcessClose(s) == \E k \in 1 .. Len(s) : Depth(s, k) < 0

\* Every ']' has its '[' but some '[' is never closed.
ExcessOpen(s) == ~ExcessClose(s) /\ Depth(s, Len(s)) > 0

Balanced(s) == ~ExcessClose(s) /\ Depth(s, Len(s)) = 0

\* The command under the read head.
CurCommand == prog[prog_ctr + 1].command[1]

\* A key 'a' is being handled: the only steps that leave the key loop
\* otherwise are those of 'q'.
AdvanceStep == pc = "keys" /\ pc' # "returned" /\ prog_ctr < Len(prog)

\* The machine m with its active-extent bookkeeping switched off: no data
\* pointer equals or exceeds this last_data_cell, so neither the test of
\* dec_data (line 240) nor that of inc_data (line 252) ever succeeds.
NoTracker(m) == [m EXCEPT !.last_data_cell = USIZE_MAX + 1]

\* The panics of redraw.
RedrawPanics == {"263:index", "299:index", "301:split_at"}

\* The indices after i of the instructions that are not NoOp.
OpsAfter(i) ==
  {j \in i + 1 .. Len(prog) - 1 : prog[j + 1].command # <<"NoOp">>}

Least(S) == CHOOSE x \in S : \A y \in S : x <= y

\* The read head is on a jump that the state lets it take.
JumpTaken ==
  \/ CurCommand = "JumpForward" /\ data[data_ptr] = 0
  \/ CurCommand = "JumpBackward" /\ data[data_ptr] # 0

JumpTarget == prog[prog_ctr + 1].command[2]

\* The highest index below i of a cell of tape d that is not zero, 0 when
\* there is none.
HighestNonZeroBelow(d, i) ==
  LET nz == {c \in 0 .. i - 1 : d[c] # 0}
  IN IF nz = {} THEN 0 ELSE CHOOSE x \in nz : \A y \in nz : y <= x

\* The character-to-command table.
CommandOf(ch) ==
  CASE ch = "<" -> "DecPtr"
    [] ch = ">" -> "IncPtr"
    [] ch = "-" -> "DecData"
    [] ch = "+" -> "IncData"
    [] ch = "." -> "Output"
    [] ch = "," -> "Input"
    [] ch = "[" -> "JumpForward"
    [] ch = "]" -> "JumpBackward"
    [] OTHER -> "NoOp"

\* The instructions i and j of p are a linked pair of delimiters.
Paired(p, i, j) ==
  /\ i \in 0 .. Len(p) - 1
  /\ j \in 0 .. Len(p) - 1
  /\ p[i + 1].command = <<"JumpForward", j>>
  /\ p[j + 1].command = <<"JumpBackward", i>>

-----------------------------------------------------------------------------
(* Claims *)

\* C1: for a source text with balanced brackets parse succeeds, and in the
\* linked instruction sequence every JumpForward at i with target j has a
\* JumpBackward at j with target i, and every JumpBackward at j with target i
\* has a JumpForward at i with target j.
C1_BalancedLinksPairs ==
  (pc # "main" /\ Balanced(program)) =>
    /\ ~ParseFailed
    /\ Len(prog) = Len(program)
    /\ \A i \in 0 .. Len(prog) - 1 :
         /\ prog[i + 1].command[1] = "JumpForward" =>
              Paired(prog, i, prog[i + 1].command[2])
         /\ prog[i + 1].command[1] = "JumpBackward" =>
              Paired(prog, prog[i + 1].command[2], i)

C1_Witness ==
  /\ pc = "keys"
  /\ program = <<"[", "[", "]", "]">>
  /\ Paired(prog, 0, 3)
  /\ Paired(prog, 1, 2)

\* C2: for a source text with an excess '[' parse fails, no Machine is
\* constructed, and no instruction sequence with an unlinked placeholder jump
\* is returned.
C2_ExcessOpenFails ==
  (pc # "main" /\ ExcessOpen(program)) =>
    /\ ParseFailed
    /\ prog = <<>>

\* C3: for a source text with an excess ']' parse fails and so does the
\* construction of the Machine: the process exits with code 2 and no field of
\* a machine was ever set.
C3_ExcessCloseFails ==
  (pc # "main" /\ ExcessClose(program)) =>
    /\ ParseFailed
    /\ prog = <<>>
    /\ prog_src = <<>>
    /\ data = NoCells
    /\ output = <<>>

C3_Witness ==
  /\ ParseFailed
  /\ program = <<"[", "]", "]", "+">>

\* C4: cell arithmetic wraps and never fails: a step that executes Increment
\* on a cell holding 255 leaves 0 there, a step that executes Decrement on a
\* cell holding 0 leaves 255 there, in neither case the machine is Failed
\* afterwards, and every cell is in 0 .. 255.
C4_CellArithmeticWraps ==
  [][(AdvanceStep /\ data_ptr < MEM_SIZE) =>
       /\ (CurCommand = "IncData" /\ data[data_ptr] = 255) =>
            (~Failed' /\ data'[data_ptr] = 0)
       /\ (CurCommand = "DecData" /\ data[data_ptr] = 0) =>
            (~Failed' /\ data'[data_ptr] = 255)
       /\ \A c \in 0 .. MEM_SIZE - 1 : data'[c] \in 0 .. 255]_vars

\* The source text has the loop `[-]` at index k.
ClearLoopAt(k) ==
  /\ k + 3 <= Len(program)
  /\ program[k + 1] = "["
  /\ program[k + 2] = "-"
  /\ program[k + 3] = "]"

\* C5: the loop `[-]`, entered on a cell holding n in 1 .. 255, ends without
\* failure with that cell at 0: in a program with balanced brackets the
\* machine never fails with the read head
\* on the Decrement of the loop, and when the run completes at the loop's
\* ']' the cell is 0.
C5_ClearLoopTerminates ==
  \A k \in 0 .. Len(program) - 1 :
    (ClearLoopAt(k) /\ Balanced(program) /\ pc \notin {"main", "run"}) =>
      /\ (prog_ctr = k + 1) => ~Failed
      /\ (prog_ctr = k + 2 /\ Completed) => data[data_ptr] = 0

\* C6: a step that executes MoveLeft with the data pointer at 0, or MoveRight
\* with the data pointer at the last cell, fails in execute and changes no
\* cell.
C6_PointerBoundsFail ==
  [][(/\ AdvanceStep
      /\ \/ CurCommand = "DecPtr" /\ data_ptr = 0
         \/ CurCommand = "IncPtr" /\ data_ptr = MEM_SIZE - 1) =>
       /\ Failed'
       /\ panic' \in {"211:overflow", "212:overflow"}
       /\ data' = data]_vars

\* C7: when a step reaches the end of the instruction sequence the caller
\* gets the terminal state back, that is, no step of the key loop ends the
\* process from inside advance; and once the process has ended, completed or
\* failed, no step changes the machine.
C7_CompletedReturnsToCaller ==
  [][/\ pc = "keys" => pc' # "exited"
     /\ pc \in {"exited", "panicked", "returned"} => machine' = machine]_vars

\* C8: Input never fails, and the program `,` with an empty input sink ends
\* Completed with cell 0 equal to 0.
C8_InputExhaustedStoresZero ==
  /\ panic # "216:todo"
  /\ (program = <<",">> /\ pc \in {"exited", "panicked"}) =>
       (Completed /\ data[0] = 0)

\* C9: the empty source parses to the empty instruction sequence, and
\* running the machine then neither fails nor outputs nor writes the tape.
C9_EmptySourceCompletes ==
  (program = <<>> /\ pc # "main") =>
    /\ ~ParseFailed
    /\ prog = <<>>
    /\ ~Failed
    /\ output = <<>>
    /\ data = NoCells

\* C10: running HelloWorld never fails, its first output byte is 72, and it
\* completes with that output.
C10_HelloWorldOutputsH ==
  program = HelloWorld =>
    /\ ~Failed
    /\ ~ParseFailed
    /\ output # <<>> => output[1] = 72
    /\ Completed => output = <<72>>

C10_Witness ==
  /\ program = HelloWorld
  /\ Completed
  /\ output = <<72>>

C12_TrackerNotLoadBearing ==
  [][AdvanceStep =>
       LET r == advance(NoTracker(Self))
       IN /\ prog_ctr' = r.prog_ctr
          /\ data_ptr' = r.data_ptr
          /\ data' = r.data
          /\ output' = r.output
          /\ Completed' <=> r.halt = "exit(0)"
          /\ (Failed' /\ panic' \notin RedrawPanics) <=>
               r.halt \notin {"", "exit(0)"}]_vars

\* C13 as stated: after a step that executes a taken jump the instruction
\* pointer is the jump's target; after one that executes a jump not taken it
\* is the index after the jump (stated for source texts with balanced
\* brackets, where every jump has its linked target).
C13_JumpLandsOnTarget ==
  [][(/\ AdvanceStep
      /\ Balanced(program)
      /\ CurCommand \in {"JumpForward", "JumpBackward"}
      /\ data_ptr < MEM_SIZE) =>
       IF JumpTaken THEN prog_ctr' = JumpTarget
       ELSE prog_ctr' = prog_ctr + 1]_vars

\* C13 as amended: the post-increment is not skipped.  After a step that
\* executes a jump the instruction pointer is on the first instruction that
\* is not a NoOp after the jump's target when the jump is taken, after the
\* jump itself when it is not; when there is no such instruction the machine
\* is Completed.
C13_JumpLandsAfterTarget ==
  [][(/\ AdvanceStep
      /\ CurCommand \in {"JumpForward", "JumpBackward"}
      /\ data_ptr < MEM_SIZE) =>
       LET from == IF JumpTaken THEN JumpTarget ELSE prog_ctr
       IN IF OpsAfter(from) = {} THEN Completed'
          ELSE /\ pc' = "keys"
               /\ prog_ctr' = Least(OpsAfter(from))]_vars

\* A backward jump was taken from index 4 to the '[' at index 1, over the
\* NoOp at index 2, and the read head is on the Increment at index 3 again.
C13_Witness ==
  /\ program = <<"+", "[", "x", "+", "]">>
  /\ pc = "keys"
  /\ prog_ctr = 3
  /\ data[0] = 2

\* C14: every step of key 'a' skips the NoOps under and after the read head
\* and then executes exactly one instruction that is not a NoOp: tape, data
\* pointer and output change as execute changes them on the first such
\* instruction at or after the instruction pointer (the machine is Failed
\* when that execute fails); when there is none, they are unchanged and the
\* machine is Completed.
C14_StepExecutesOneOp ==
  [][AdvanceStep =>
       LET ops == OpsAfter(prog_ctr - 1)
       IN IF ops = {}
          THEN /\ Completed'
               /\ data' = data
               /\ data_ptr' = data_ptr
               /\ output' = output
          ELSE LET r == execute([Self EXCEPT !.prog_ctr = Least(ops)])
               IN IF r.halt # "" THEN Failed'
                  ELSE /\ data' = r.data
                       /\ data_ptr' = r.data_ptr
                       /\ output' = r.output]_vars

\* C15: a step that executes Decrement on a cell holding 1, with the data
\* pointer on the active extent, does not fail, and leaves as active extent
\* the highest lower index whose cell is not zero, or 0 when every lower
\* cell is zero.
C15_ExtentRescan ==
  [][(/\ AdvanceStep
      /\ CurCommand = "DecData"
      /\ data_ptr < MEM_SIZE
      /\ data[data_ptr] = 1
      /\ data_ptr = last_data_cell) =>
       /\ ~Failed'
       /\ last_data_cell' = HighestNonZeroBelow(data', data_ptr)
       /\ last_data_cell' \in 0 .. data_ptr]_vars

C17_OutputAppendsCell ==
  [][(/\ AdvanceStep
      /\ CurCommand = "Output"
      /\ data_ptr < MEM_SIZE) =>
       /\ output' = Append(output, data[data_ptr])
       /\ data' = data
       /\ data_ptr' = data_ptr]_vars

\* C18: in every state of a machine that has not failed, every cell whose
\* index is greater than the active extent holds 0.
C18_CellsBeyondExtentAreZero ==
  ~Failed =>
    \A c \in 0 .. MEM_SIZE - 1 : c > last_data_cell => data[c] = 0

\* C19: while the machine is running (constructed and neither completed nor
\* failed) the instruction pointer is an index of the instruction sequence.
C19_ProgCtrInRange ==
  Running => (0 <= prog_ctr /\ prog_ctr < Len(prog))

\* C20: in every state the data pointer is an index of the tape.
C20_DataPtrInRange ==
  0 <= data_ptr /\ data_ptr < MEM_SIZE

====
